---- MODULE Spec2Model ----
\* perftest: one probe loop (testHttp) per target URL, started by main and joined
\* with a WaitGroup; a signal handler closes the shared done channel; sendAlert
\* debounces alerts through the package variable lastAlert.
EXTENDS Integers, Sequences, FiniteSets, TLC

\* ---------------------------------------------------------------- bounds

\* successes explored per loop (caps the count of a loop run with -n 0)
MaxCount == 3
\* wall clock readings explored: the first MaxTicks advances of Advances
MaxTicks == 3
\* termination signals that reach the handler
MaxSignals == 2

\* ---------------------------------------------------------------- constants

MaxInt32 == 2147483647
\* time.Millisecond and time.Hour, with durations counted in sixteenths of a
\* millisecond so that 24 hours is a number the model can hold
Millisecond == 16
Hour == 3600 * 1000 * Millisecond
SigChanCap == 1

\* the URLs a run can be given (flag.Args() / PERFTEST_URL): the first alone, or both
urls == <<"u1", "u2">>
Urls == {urls[i] : i \in 1..Len(urls)}
OneUrl == SubSeq(urls, 1, 1)

NoSample == [none |-> TRUE]

\* ---------------------------------------------------------------- inputs

\* Samples util.FetchURL can return: response times of 10, 20 and 30 ms. The DNS
\* lookup of the first takes 1.0625 ms, which lies half-way between two thousandths.
SampleShapes ==
  { [DnsLk |-> 1 * Millisecond + 1, TcpHs |-> 2 * Millisecond, TlsHs |-> 3 * Millisecond,
     Reply |-> 4 * Millisecond, Close |-> 1 * Millisecond, Total |-> 11 * Millisecond + 1,
     Size |-> 100],
    [DnsLk |-> 2 * Millisecond, TcpHs |-> 4 * Millisecond, TlsHs |-> 6 * Millisecond,
     Reply |-> 8 * Millisecond, Close |-> 2 * Millisecond, Total |-> 22 * Millisecond,
     Size |-> 250],
    [DnsLk |-> 3 * Millisecond, TcpHs |-> 6 * Millisecond, TlsHs |-> 9 * Millisecond,
     Reply |-> 12 * Millisecond, Close |-> 3 * Millisecond, Total |-> 33 * Millisecond,
     Size |-> 401] }

\* successive advances of the wall clock, in seconds: less than, exactly and more
\* than the default alert interval
Advances == <<100, 300, 300, 400, 100>>

\* the wall clock after k advances from 0
RECURSIVE Reading(_)
Reading(k) == IF k = 0 THEN 0 ELSE Reading(k - 1) + Advances[k]

\* what util.FetchURL can return for each URL: the first target answers at any of
\* the three speeds, the others are slow
SlowShapes == {sh \in SampleShapes : sh.Size = 401}
ShapesOf(l) == IF l = urls[1] THEN SampleShapes ELSE SlowShapes

\* command line and environment the process is started with
NoTwilio == [key |-> "", sms |-> <<>>]
KeyOnly == [key |-> "sid:tok", sms |-> <<>>]
SmsOnly == [key |-> "", sms |-> <<"+1555">>]
Twilio == [key |-> "sid:tok", sms |-> <<"+1555">>]
TwoNumbers == [key |-> "sid:tok", sms |-> <<"+1555", "+1666">>]

\* RESPONSE_THRESHOLD: not set, or set to a string of characters
NoEnv == [found |-> FALSE, value |-> <<>>]
Env(str) == [found |-> TRUE, value |-> str]

\* the URLs, -n, -f, -d, the Twilio environment, -c, a usable webhook, -A and
\* RESPONSE_THRESHOLD, with the default -M 300
Flags(us, n, f, d, tw, cw, wh, a, rt) ==
  [urls |-> us, numTests |-> n, maxFails |-> f, delayFlag |-> d, alertMsec |-> a,
   respThreshold |-> rt, alertInterval |-> 300, twilio |-> tw, cwFlag |-> cw,
   whClient |-> wh]

\* one URL probed without delay or every 10 s and two URLs probed every 10 s,
\* bounded and unbounded attempts, both failure ceilings, every state of the Twilio
\* environment; the threshold is 20 ms from -A, 20 ms from the environment, or
\* 24 hours when neither gives one
Configs ==
  { Flags(OneUrl, 3, 2, 0, NoTwilio, FALSE, FALSE, 0, Env(<<"2", "x">>)),
    Flags(OneUrl, 0, 2, 0, TwoNumbers, TRUE, TRUE, 20, NoEnv),
    Flags(urls, 0, 1, 10, KeyOnly, TRUE, FALSE, 0, Env(<<"2", "0">>)),
    Flags(OneUrl, 0, 1, 10, SmsOnly, FALSE, TRUE, 20, Env(<<"5">>)),
    Flags(urls, 0, 1, 10, Twilio, FALSE, FALSE, 20, NoEnv) }

VARIABLES
  cfg,            \* flags and environment, fixed at start
  now,            \* wall clock, Unix seconds
  ticks,          \* advances of the wall clock so far
  mainPc,         \* main: "spawn", "wait", "returned"
  nextUrl,        \* index of the next url main starts a loop for
  doneChan,       \* main's variable doneChan: "chan" or "nil"
  chanClosed,     \* whether the channel made at line 228 is closed
  closes,         \* number of close(doneChan) executed
  acks,           \* number of "received ... terminating" lines printed
  sigchan,        \* signals buffered in sigchan
  handlerPc,      \* signal handler: "range" at line 236, "clear" between lines 239 and 240
  wg,             \* WaitGroup counter
  crashed,        \* the runtime ended the process for an unrecovered panic
  lastAlert,      \* package variable lastAlert
  sent,           \* requests made to the notification sink, in order
  oops,           \* number of "OOPS: nowhere to send notification" lines
  pc,             \* per loop: position in testHttp
  done,           \* per loop: the channel value passed as done
  numTries,       \* per loop: numTries after line 270
  count,          \* per loop
  failcount,      \* per loop
  ptSummary,      \* per loop
  deferred,       \* per loop: summary printers registered with defer
  pt,             \* per loop: the sample of the current attempt
  timeSinceLast,  \* per loop: local of sendAlert
  attempts,       \* per loop: calls of util.FetchURL
  streak,         \* per loop: failed calls of util.FetchURL since the last success
  effects,        \* per loop: what the current attempt has written and published
  smsIdx,         \* per loop: index in twilioSms of the request sendTwilio waits on
  timer,          \* per loop: wall clock reading at which the time.After of the wait fires
  hist,           \* per loop: how many samples of each shape util.FetchURL returned
  summaries,      \* per loop: summary blocks printed
  noValid,        \* per loop: "No valid samples" lines printed
  exitPath        \* per loop: the return statement taken

mainVars == <<mainPc, nextUrl, wg>>
sigVars == <<doneChan, chanClosed, closes, acks, sigchan, handlerPc>>
alertVars == <<lastAlert, sent, oops>>
loopVars == <<pc, done, numTries, count, failcount, ptSummary, deferred, pt,
              timeSinceLast, attempts, streak, effects, smsIdx, timer, hist,
              summaries, noValid, exitPath>>
vars == <<cfg, now, ticks, crashed, mainVars, sigVars, alertVars, loopVars>>

\* ---------------------------------------------------------------- helpers

ZeroPt == [DnsLk |-> 0, TcpHs |-> 0, TlsHs |-> 0, Reply |-> 0, Close |-> 0,
           Total |-> 0, Size |-> 0, Start |-> 0]

Digits == <<"0", "1", "2", "3", "4", "5", "6", "7", "8", "9">>

IsDigit(c) == \E i \in 1..Len(Digits) : Digits[i] = c

DigitValue(c) == (CHOOSE i \in 1..Len(Digits) : Digits[i] = c) - 1

RECURSIVE Decimal(_)
Decimal(str) ==
  IF str = <<>> THEN 0
  ELSE 10 * Decimal(SubSeq(str, 1, Len(str) - 1)) + DigitValue(str[Len(str)])

\* strconv.Atoi: an optional sign and one or more decimal digits, or an error
Atoi(str) ==
  LET signed == str # <<>> /\ str[1] \in {"+", "-"}
      body == IF signed THEN Tail(str) ELSE str
      ok == body # <<>> /\ \A i \in 1..Len(body) : IsDigit(body[i])
  IN  [ok |-> ok,
       val |-> IF ~ok THEN 0
               ELSE IF signed /\ str[1] = "-" THEN 0 - Decimal(body)
               ELSE Decimal(body)]

\* main, lines 168-184: the threshold as a duration, from -A or, when -A is not
\* positive, from RESPONSE_THRESHOLD if it parses; 0 becomes 24 hours
alertThresh ==
  LET rt == cfg.respThreshold
      fromFlag == cfg.alertMsec * Millisecond
      thresh == IF rt.found /\ ~(cfg.alertMsec > 0) /\ Atoi(rt.value).ok
                  THEN Atoi(rt.value).val * Millisecond
                  ELSE fromFlag
  IN  IF 0 = thresh THEN 24 * Hour ELSE thresh

\* util.PingTimes.RespTime: TCP open to TCP close, DNS not included
RespTime(p) == p.TcpHs + p.TlsHs + p.Reply + p.Close

\* float64 arithmetic, exact: a positive float64 is its 53 binary digits m, most
\* significant first, and the exponent e of the first of them, the value being
\* m * 2^(e - 52); zero has no digits. Numbers too long for the model's integers
\* are sequences of limbs of LimbBits binary digits, most significant first.
LimbBits == 13
Pow2Table == <<1, 2, 4, 8, 16, 32, 64, 128, 256, 512, 1024, 2048, 4096, 8192, 16384,
               32768, 65536, 131072, 262144, 524288, 1048576, 2097152, 4194304,
               8388608, 16777216, 33554432, 67108864, 134217728, 268435456,
               536870912, 1073741824>>
Pow2(k) == Pow2Table[k + 1]
LimbBase == Pow2(LimbBits)
FloatZero == [m |-> <<>>, e |-> 0]

\* the w binary digits of v
BitsOf(v, w) == [i \in 1..w |-> (v \div Pow2(w - i)) % 2]

RECURSIVE BitsOfLimbs(_)
BitsOfLimbs(limbs) ==
  IF limbs = <<>> THEN <<>>
  ELSE BitsOf(Head(limbs), LimbBits) \o BitsOfLimbs(Tail(limbs))

RECURSIVE ValueOf(_)
ValueOf(bits) ==
  IF bits = <<>> THEN 0
  ELSE 2 * ValueOf(SubSeq(bits, 1, Len(bits) - 1)) + bits[Len(bits)]

\* the limbs of a sequence of binary digits whose length is a multiple of LimbBits
LimbsOf(bits) ==
  [i \in 1..(Len(bits) \div LimbBits) |->
     ValueOf(SubSeq(bits, LimbBits * (i - 1) + 1, LimbBits * i))]

\* long division by a divisor below 2^17, limb by limb, r being what is left of
\* the limbs before: the limbs of the quotient and what is left in the end
RECURSIVE DivLimbs(_, _, _)
DivLimbs(limbs, c, r) ==
  IF limbs = <<>> THEN [q |-> <<>>, r |-> r]
  ELSE LET t == r * LimbBase + Head(limbs)
           rest == DivLimbs(Tail(limbs), c, t % c)
       IN  [q |-> <<t \div c>> \o rest.q, r |-> rest.r]

\* multiplication by a factor below 2^17, from the last limb with a carry
RECURSIVE MulLimbs(_, _, _)
MulLimbs(limbs, k, carry) ==
  IF limbs = <<>> THEN <<carry>>
  ELSE LET t == limbs[Len(limbs)] * k + carry
       IN  Append(MulLimbs(SubSeq(limbs, 1, Len(limbs) - 1), k, t \div LimbBase),
                  t % LimbBase)

\* the float64 nearest to a positive number given by binary digits, the digit at
\* place point having weight 2^0 and left telling whether anything non-zero
\* follows the digits: round to nearest, ties to even
RoundToFloat(bits, point, left) ==
  LET p == CHOOSE i \in 1..Len(bits) :
             bits[i] = 1 /\ \A j \in 1..(i - 1) : bits[j] = 0
      m == SubSeq(bits, p, p + 52)
      sticky == left \/ \E j \in (p + 54)..Len(bits) : bits[j] = 1
      up == bits[p + 53] = 1 /\ (sticky \/ m[53] = 1)
      zeros == {i \in 1..53 : m[i] = 0}
      z == CHOOSE i \in zeros : \A j \in zeros : j <= i
  IN  IF ~up THEN [m |-> m, e |-> point - p]
      ELSE IF zeros = {} THEN [m |-> [i \in 1..53 |-> IF i = 1 THEN 1 ELSE 0],
                               e |-> point - p + 1]
      ELSE [m |-> [i \in 1..53 |-> IF i < z THEN m[i] ELSE IF i = z THEN 1 ELSE 0],
            e |-> point - p]

\* float64(n) / float64(d) for integers 0 <= n < 2^31 and 0 < d < 2^17
FloatOfQuotient(n, d) ==
  IF n = 0 THEN FloatZero
  ELSE LET frac == DivLimbs(<<0, 0, 0, 0, 0, 0>>, d, n % d)
       IN  RoundToFloat(BitsOf(n \div d, 31) \o BitsOfLimbs(frac.q), 31, frac.r # 0)

\* f / float64(c) for an integer 0 < c < 2^17
FloatDiv(f, c) ==
  IF f.m = <<>> THEN FloatZero
  ELSE LET limbs == LimbsOf(BitsOf(0, 12) \o f.m)
           quot == DivLimbs(limbs \o <<0, 0, 0, 0>>, c, 0)
           sized == RoundToFloat(BitsOfLimbs(quot.q), 65, quot.r # 0)
       IN  [m |-> sized.m, e |-> sized.e + f.e - 52]

\* "%.03f" of a float64 0 <= f < 2^21, as a number of thousandths: the decimal
\* expansion of the binary value rounded to three places, ties to even
FormatThousandths(f) ==
  IF f.m = <<>> THEN 0
  ELSE LET limbs == MulLimbs(LimbsOf(BitsOf(0, 12) \o f.m), 1000, 0)
           bits == BitsOfLimbs(limbs)
           k == 52 - f.e
           cut == Len(bits) - k
           Part(i) ==
             LET sh == LimbBits * (Len(limbs) - i) IN
               IF limbs[i] = 0 THEN 0
               ELSE IF sh >= k THEN limbs[i] * Pow2(sh - k)
               ELSE IF k - sh < LimbBits THEN limbs[i] \div Pow2(k - sh)
               ELSE 0
           whole == Part(1) + Part(2) + Part(3) + Part(4) + Part(5) + Part(6)
           half == cut >= 0 /\ bits[cut + 1] = 1
           rest == \E j \in 1..Len(bits) : j >= cut + 2 /\ bits[j] = 1
       IN  IF half /\ (rest \/ whole % 2 = 1) THEN whole + 1 ELSE whole

\* util.Msec: a duration as float64 milliseconds, float64(d) / float64(ms), kept as
\* the two integers it is the quotient of
Msec(d) == <<d, Millisecond>>

\* float64 division by fc, kept as the quotient and the divisor
FDiv(r, fc) == <<r[1], r[2], fc>>

\* the float64 the two divisions give
FloatValue(q) == FloatDiv(FloatOfQuotient(q[1], q[2]), q[3])

\* "%.03f" of the float64, as a number of thousandths. The two divisions are each
\* off by less than one part in 2^52, far less than the distance of the exact
\* quotient to the nearest point half-way between two thousandths unless it is
\* such a point: only there is the float64 itself needed to tell which way the
\* digits round. For durations q[1] < 2^20.
Fmt3(q) ==
  LET num == 1000 * q[1]
      den == q[2] * q[3]
      whole == num \div den
      twice == 2 * (num % den)
  IN  IF twice < den THEN whole
      ELSE IF twice > den THEN whole + 1
      ELSE FormatThousandths(FloatValue(q))

\* Go's integer division: the quotient truncated toward zero
Quot(a, b) == IF a >= 0 THEN a \div b ELSE 0 - ((0 - a) \div b)

hhmmss(secs) ==
  LET hr == Quot(secs, 3600)
      s1 == secs - hr * 3600
      min == Quot(s1, 60)
      s2 == s1 - min * 60
  IN  IF hr > 0 THEN <<"h", hr, min, s2>>
      ELSE IF min > 0 THEN <<"m", min, s2>>
      ELSE <<"s", s2>>

\* variant: every success taken for the first one
FirstSampleAlways(c) == TRUE

\* line 305: the first success initialises the summary and registers its printer
FirstSample(c) == c = 0

\* variant: the Reply phase left out of the running total
AccumulateNoReply(sum, p) ==
  [sum EXCEPT !.DnsLk = @ + p.DnsLk, !.TcpHs = @ + p.TcpHs, !.TlsHs = @ + p.TlsHs,
              !.Close = @ + p.Close, !.Total = @ + p.Total, !.Size = @ + p.Size]

\* lines 328-334
Accumulate(sum, p) ==
  [sum EXCEPT !.DnsLk = @ + p.DnsLk, !.TcpHs = @ + p.TcpHs, !.TlsHs = @ + p.TlsHs,
              !.Reply = @ + p.Reply, !.Close = @ + p.Close, !.Total = @ + p.Total,
              !.Size = @ + p.Size]

\* lines 307-326: the block the deferred printer writes, read when it runs
SummaryBlock(sum, c, t) ==
  [count |-> c,
   elapsed |-> hhmmss(t - sum.Start),
   DnsLk |-> Fmt3(FDiv(Msec(sum.DnsLk), c)),
   TcpHs |-> Fmt3(FDiv(Msec(sum.TcpHs), c)),
   TlsHs |-> Fmt3(FDiv(Msec(sum.TlsHs), c)),
   Reply |-> Fmt3(FDiv(Msec(sum.Reply), c)),
   Close |-> Fmt3(FDiv(Msec(sum.Close), c)),
   RespTime |-> Fmt3(FDiv(Msec(RespTime(sum)), c)),
   Size |-> Quot(sum.Size, c)]

\* lines 270-272
EffectiveTries(n) == IF n = 0 THEN MaxInt32 ELSE n

\* variant: the final message printed whatever the success count
NoValidSamplesAlways(c) == TRUE

\* line 298
NoValidSamples(c) == c = 0

\* variant: a sample exactly at the threshold counted as over it
BreachesOrEquals(rt, thresh) == rt >= thresh

\* line 373
Breaches(rt, thresh) == rt > thresh

\* variant: the ceiling test off by one
CeilingPassed(f, max) == f > max

\* line 295
CeilingReached(f, max) == f >= max

\* variant: the attempt ceiling test off by one
TriesPassed(c, n) == c > n

\* line 379
TriesReached(c, n) == c >= n

\* line 424
TooSoon(since, interval) == since < interval

\* variant: notification counted as unconfigured only when both the credentials
\* and the recipients are missing
NowhereToSendBoth(tw) == Len(tw.key) = 0 /\ Len(tw.sms) = 0

\* line 432
NowhereToSend(tw) == Len(tw.key) = 0 \/ Len(tw.sms) = 0

\* line 385: a receive from a nil channel never proceeds, one from a closed channel does
DoneReady(d, closed) == d = "chan" /\ closed

\* line 389: time.After of a delay that is not positive can proceed at once; a
\* positive delay expires when the clock has reached its deadline, while the loop
\* is parked, and a loop parked on a closed channel is woken by the channel
TimerReady(delay, deadline, t, d, closed) ==
  delay <= 0 \/ (t >= deadline /\ ~DoneReady(d, closed))

alive == ~crashed /\ mainPc # "returned"

\* ---------------------------------------------------------------- initial state

\* the state at line 244: flags parsed, doneChan made, handler goroutine started,
\* the wall clock at its reading number k
InitAt(k, configs) ==
  /\ cfg \in configs
  /\ now = Reading(k)
  /\ ticks = k
  /\ mainPc = "spawn"
  /\ nextUrl = 1
  /\ doneChan = "chan"
  /\ chanClosed = FALSE
  /\ closes = 0
  /\ acks = 0
  /\ sigchan = 0
  /\ handlerPc = "range"
  /\ wg = 0
  /\ crashed = FALSE
  /\ lastAlert = 0
  /\ sent = <<>>
  /\ oops = 0
  /\ pc = [l \in Urls |-> "idle"]
  /\ done = [l \in Urls |-> "none"]
  /\ numTries = [l \in Urls |-> 0]
  /\ count = [l \in Urls |-> 0]
  /\ failcount = [l \in Urls |-> 0]
  /\ ptSummary = [l \in Urls |-> ZeroPt]
  /\ deferred = [l \in Urls |-> 0]
  /\ pt = [l \in Urls |-> NoSample]
  /\ timeSinceLast = [l \in Urls |-> 0]
  /\ attempts = [l \in Urls |-> 0]
  /\ streak = [l \in Urls |-> 0]
  /\ effects = [l \in Urls |-> <<>>]
  /\ smsIdx = [l \in Urls |-> 0]
  /\ timer = [l \in Urls |-> 0]
  /\ hist = [l \in Urls |-> [sh \in SampleShapes |-> 0]]
  /\ summaries = [l \in Urls |-> <<>>]
  /\ noValid = [l \in Urls |-> 0]
  /\ exitPath = [l \in Urls |-> "none"]

\* a clock that reads more than one alert interval at the start, as any real clock
\* does, and runs on from there
Init == InitAt(2, Configs)

\* started at the epoch and run until the failure ceiling
AlertConfigs == {c \in Configs : c.numTests = 0 /\ c.maxFails = 1}

InitAlert == InitAt(0, AlertConfigs)

\* ---------------------------------------------------------------- main

\* lines 245-248: one iteration of the for loop, and lines 269-272 of the new loop
Spawn ==
  /\ alive
  /\ mainPc = "spawn"
  /\ nextUrl <= Len(cfg.urls)
  /\ LET l == cfg.urls[nextUrl] IN
       /\ wg' = wg + 1
       /\ pc' = [pc EXCEPT ![l] = "fetch"]
       /\ done' = [done EXCEPT ![l] = doneChan]
       /\ numTries' = [numTries EXCEPT ![l] = EffectiveTries(cfg.numTests)]
  /\ nextUrl' = nextUrl + 1
  /\ mainPc' = IF nextUrl + 1 > Len(cfg.urls) THEN "wait" ELSE "spawn"
  /\ UNCHANGED <<cfg, now, ticks, crashed, sigVars, alertVars, count, failcount, ptSummary,
                 deferred, pt, timeSinceLast, attempts, streak, effects, smsIdx, hist,
                 summaries, noValid, exitPath, timer>>

\* lines 254-259
MainWait ==
  /\ alive
  /\ mainPc = "wait"
  /\ wg = 0
  /\ mainPc' = "returned"
  /\ UNCHANGED <<cfg, now, ticks, crashed, nextUrl, wg, sigVars, alertVars, loopVars>>

\* ---------------------------------------------------------------- signals

\* os/signal delivers without blocking: a signal is dropped when sigchan is full
Signal ==
  /\ alive
  /\ acks + sigchan < MaxSignals
  /\ sigchan' = IF sigchan < SigChanCap THEN sigchan + 1 ELSE sigchan
  /\ UNCHANGED <<cfg, now, ticks, crashed, mainVars, doneChan, chanClosed, closes, acks,
                 handlerPc, alertVars, loopVars>>

\* line 238
MustClose(dc) == dc # "nil"

\* lines 236-239: the handler takes a signal, prints the acknowledgement and, if
\* doneChan is not nil, closes it; close of a closed channel panics
HandleSignal ==
  /\ alive
  /\ handlerPc = "range"
  /\ sigchan > 0
  /\ sigchan' = sigchan - 1
  /\ acks' = acks + 1
  /\ IF MustClose(doneChan)
       THEN /\ closes' = closes + 1
            /\ chanClosed' = TRUE
            /\ crashed' = chanClosed
            /\ handlerPc' = "clear"
       ELSE UNCHANGED <<closes, chanClosed, crashed, handlerPc>>
  /\ UNCHANGED <<cfg, now, ticks, mainVars, doneChan, alertVars, loopVars>>

\* line 240: the handler sets main's variable doneChan to nil
ClearDoneChan ==
  /\ alive
  /\ handlerPc = "clear"
  /\ doneChan' = "nil"
  /\ handlerPc' = "range"
  /\ UNCHANGED <<cfg, now, ticks, crashed, mainVars, chanClosed, closes, acks, sigchan,
                 alertVars, loopVars>>

\* time passes whatever main, the handler and the loops are doing
Tick ==
  /\ alive
  /\ ticks < MaxTicks
  /\ ticks < Len(Advances)
  /\ ticks' = ticks + 1
  /\ now' = now + Advances[ticks + 1]
  /\ UNCHANGED <<cfg, crashed, mainVars, sigVars, alertVars, loopVars>>

\* ---------------------------------------------------------------- testHttp

\* variant: a return that does not call wg.Done
ReturnsWithoutDone(l, path, t) ==
  /\ summaries' = [summaries EXCEPT ![l] =
                     @ \o [i \in 1..deferred[l] |->
                             SummaryBlock(ptSummary'[l], count'[l], t)]]
  /\ wg' = wg
  /\ pc' = [pc EXCEPT ![l] = "done"]
  /\ exitPath' = [exitPath EXCEPT ![l] = path]

\* a return of loop l at time t: the deferred functions run last-registered first,
\* the summary printer(s) and then wg.Done
Returns(l, path, t) ==
  /\ summaries' = [summaries EXCEPT ![l] =
                     @ \o [i \in 1..deferred[l] |->
                             SummaryBlock(ptSummary'[l], count'[l], t)]]
  /\ wg' = wg - 1
  /\ pc' = [pc EXCEPT ![l] = "done"]
  /\ exitPath' = [exitPath EXCEPT ![l] = path]

\* lines 292-303: util.FetchURL returns nil
FetchFail(l) ==
  /\ alive
  /\ pc[l] = "fetch"
  /\ attempts' = [attempts EXCEPT ![l] = @ + 1]
  /\ failcount' = [failcount EXCEPT ![l] = @ + 1]
  /\ streak' = [streak EXCEPT ![l] = @ + 1]
  /\ UNCHANGED <<count, ptSummary, deferred, effects, smsIdx>>
  /\ IF CeilingReached(failcount'[l], cfg.maxFails)
       THEN /\ noValid' = [noValid EXCEPT ![l] =
                             IF NoValidSamples(count[l]) THEN @ + 1 ELSE @]
            /\ Returns(l, "failures", now)
       ELSE /\ pc' = [pc EXCEPT ![l] = "check"]
            /\ UNCHANGED <<noValid, summaries, wg, exitPath>>
  /\ UNCHANGED <<cfg, now, ticks, crashed, mainPc, nextUrl, sigVars, alertVars, done,
                 numTries, pt, timeSinceLast, hist, timer>>

\* variant: the webhook post made before the CloudWatch publication
StageAfterSwapped(stage, p) ==
  IF stage = "emit" /\ cfg.whClient THEN "webhook"
  ELSE IF stage \in {"emit", "webhook"} /\ cfg.cwFlag THEN "cloudwatch"
  ELSE IF Breaches(RespTime(p), alertThresh) THEN "alert_read"
  ELSE "check"

\* lines 351-376: where the loop is after the step named stage of a sample p: in
\* the CloudWatch publication if -c, in the webhook post if there is a webhook
\* client, else past the threshold test, in sendAlert or at the attempt-ceiling test
StageAfter(stage, p) ==
  IF stage = "emit" /\ cfg.cwFlag THEN "cloudwatch"
  ELSE IF stage \in {"emit", "cloudwatch"} /\ cfg.whClient THEN "webhook"
  ELSE IF Breaches(RespTime(p), alertThresh) THEN "alert_read"
  ELSE "check"

\* lines 292, 304-349: util.FetchURL returns a sample started now; it is counted,
\* added to the summary and written
FetchOk(l, shape) ==
  /\ alive
  /\ pc[l] = "fetch"
  /\ count[l] < MaxCount
  /\ LET p == [Start |-> now] @@ shape
         to == StageAfter("emit", p)
     IN
       /\ attempts' = [attempts EXCEPT ![l] = @ + 1]
       /\ hist' = [hist EXCEPT ![l][shape] = @ + 1]
       /\ streak' = [streak EXCEPT ![l] = 0]
       /\ effects' = [effects EXCEPT ![l] = <<"emit">>]
       /\ ptSummary' = [ptSummary EXCEPT ![l] =
                          IF FirstSample(count[l]) THEN p ELSE Accumulate(@, p)]
       /\ deferred' = [deferred EXCEPT ![l] =
                         IF FirstSample(count[l]) THEN @ + 1 ELSE @]
       /\ count' = [count EXCEPT ![l] = @ + 1]
       /\ pt' = [pt EXCEPT ![l] = IF to = "check" THEN NoSample ELSE p]
       /\ pc' = [pc EXCEPT ![l] = to]
  /\ UNCHANGED <<cfg, now, ticks, crashed, mainVars, sigVars, alertVars, done, numTries,
                 failcount, timeSinceLast, smsIdx, summaries, noValid, exitPath, timer>>

\* lines 351-370: util.PublishRespTime or publishJSON returns; a delivery that
\* failed is logged and changes nothing
Publish(l) ==
  /\ alive
  /\ pc[l] \in {"cloudwatch", "webhook"}
  /\ LET to == StageAfter(pc[l], pt[l]) IN
       /\ effects' = [effects EXCEPT ![l] = Append(@, pc[l])]
       /\ pt' = [pt EXCEPT ![l] = IF to = "check" THEN NoSample ELSE @]
       /\ pc' = [pc EXCEPT ![l] = to]
  /\ UNCHANGED <<cfg, now, ticks, crashed, mainVars, sigVars, alertVars, done, numTries,
                 count, failcount, ptSummary, deferred, timeSinceLast, attempts, streak,
                 smsIdx, hist, summaries, noValid, exitPath, timer>>

\* lines 379-382
CheckTries(l) ==
  /\ alive
  /\ pc[l] = "check"
  /\ effects' = [effects EXCEPT ![l] = <<>>]
  /\ UNCHANGED <<count, ptSummary>>
  /\ IF TriesReached(count[l], numTries[l])
       THEN Returns(l, "attempts", now) /\ UNCHANGED timer
       ELSE /\ pc' = [pc EXCEPT ![l] = "wait"]
            /\ timer' = [timer EXCEPT ![l] = now + cfg.delayFlag]
            /\ UNCHANGED <<summaries, wg, exitPath>>
  /\ UNCHANGED <<cfg, now, ticks, crashed, mainPc, nextUrl, sigVars, alertVars, done,
                 numTries, failcount, deferred, pt, timeSinceLast, attempts, streak,
                 smsIdx, hist, noValid>>

\* lines 384-385: the loop is at the select and its done case can proceed
AtDone(l) ==
  /\ alive
  /\ pc[l] = "wait"
  /\ DoneReady(done[l], chanClosed)

\* lines 384-387: the select takes the done case
WaitDone(l) ==
  /\ AtDone(l)
  /\ UNCHANGED <<count, ptSummary>>
  /\ Returns(l, "stop", now)
  /\ timer' = [timer EXCEPT ![l] = 0]
  /\ UNCHANGED <<cfg, now, ticks, crashed, mainPc, nextUrl, sigVars, alertVars, done,
                 numTries, failcount, deferred, pt, timeSinceLast, attempts, streak,
                 effects, smsIdx, hist, noValid>>

\* lines 389-391: the select takes the timer case
WaitTimer(l) ==
  /\ alive
  /\ pc[l] = "wait"
  /\ TimerReady(cfg.delayFlag, timer[l], now, done[l], chanClosed)
  /\ pc' = [pc EXCEPT ![l] = "fetch"]
  /\ timer' = [timer EXCEPT ![l] = 0]
  /\ UNCHANGED <<cfg, now, ticks, crashed, mainVars, sigVars, alertVars, done, numTries,
                 count, failcount, ptSummary, deferred, pt, timeSinceLast, attempts,
                 streak, effects, smsIdx, hist, summaries, noValid, exitPath>>

\* ---------------------------------------------------------------- sendAlert

\* line 418: read of lastAlert
SendAlertRead(l) ==
  /\ alive
  /\ pc[l] = "alert_read"
  /\ timeSinceLast' = [timeSinceLast EXCEPT ![l] = pt[l].Start - lastAlert]
  /\ effects' = [effects EXCEPT ![l] = Append(@, "alert")]
  /\ pc' = [pc EXCEPT ![l] = "alert_check"]
  /\ UNCHANGED <<cfg, now, ticks, crashed, mainVars, sigVars, alertVars, done, numTries,
                 count, failcount, ptSummary, deferred, pt, attempts, streak, smsIdx,
                 hist, summaries, noValid, exitPath, timer>>

\* lines 424-430: the debounce check and the write of lastAlert
SendAlertCheck(l) ==
  /\ alive
  /\ pc[l] = "alert_check"
  /\ IF TooSoon(timeSinceLast[l], cfg.alertInterval)
       THEN /\ pc' = [pc EXCEPT ![l] = "check"]
            /\ pt' = [pt EXCEPT ![l] = NoSample]
            /\ UNCHANGED lastAlert
       ELSE /\ lastAlert' = pt[l].Start
            /\ pc' = [pc EXCEPT ![l] = "alert_send"]
            /\ UNCHANGED pt
  /\ timeSinceLast' = [timeSinceLast EXCEPT ![l] = 0]
  /\ UNCHANGED <<cfg, now, ticks, crashed, mainVars, sigVars, sent, oops, done, numTries,
                 count, failcount, ptSummary, deferred, attempts, streak, effects,
                 smsIdx, hist, summaries, noValid, exitPath, timer>>

\* what client.Do gives sendTwilio: a 2xx response, another response, or no
\* response at all (err != nil, resp == nil)
Outcomes == {"2xx", "http_error", "unreachable"}

\* line 470-471: resp.StatusCode with resp == nil is a nil dereference
Panics(o) == o = "unreachable"

\* lines 442-446: the key holds the separator main put between sid and token
HasSeparator(key) == Len(key) > 0

\* lines 435-446: the recipient at or after index i that sendTwilio makes a request
\* for, 0 if there is none
NextRequest(tw, i) == IF i <= Len(tw.sms) /\ HasSeparator(tw.key) THEN i ELSE 0

\* lines 456-470: the request sendTwilio makes for the sample of loop l
Request(l, i) == [url |-> l, start |-> pt[l].Start, to |-> cfg.twilio.sms[i]]

\* lines 432-437: nowhere to send, or sendTwilio for the first recipient, which
\* makes its request and waits in client.Do
SendAlertNotify(l) ==
  /\ alive
  /\ pc[l] = "alert_send"
  /\ IF NowhereToSend(cfg.twilio)
       THEN /\ oops' = oops + 1
            /\ pc' = [pc EXCEPT ![l] = "check"]
            /\ pt' = [pt EXCEPT ![l] = NoSample]
            /\ UNCHANGED <<sent, smsIdx>>
       ELSE IF NextRequest(cfg.twilio, 1) = 0
         THEN /\ pc' = [pc EXCEPT ![l] = "check"]
              /\ pt' = [pt EXCEPT ![l] = NoSample]
              /\ UNCHANGED <<oops, sent, smsIdx>>
         ELSE /\ sent' = Append(sent, Request(l, 1))
              /\ smsIdx' = [smsIdx EXCEPT ![l] = 1]
              /\ pc' = [pc EXCEPT ![l] = "twilio"]
              /\ UNCHANGED <<oops, pt>>
  /\ UNCHANGED <<cfg, now, ticks, crashed, mainVars, sigVars, lastAlert, done, numTries,
                 count, failcount, ptSummary, deferred, timeSinceLast, attempts, streak,
                 effects, hist, summaries, noValid, exitPath, timer>>

\* lines 470-480 and 435-437: client.Do returns; with no response sendTwilio
\* panics and the goroutine unwinds through the deferred calls of testHttp, else
\* it returns and sendAlert goes on to the next recipient, if any
SendTwilioDone(l, o) ==
  /\ alive
  /\ pc[l] = "twilio"
  /\ UNCHANGED <<count, ptSummary>>
  /\ IF Panics(o)
       THEN /\ Returns(l, "panic", now)
            /\ smsIdx' = [smsIdx EXCEPT ![l] = 0]
            /\ pt' = [pt EXCEPT ![l] = NoSample]
            /\ UNCHANGED sent
       ELSE /\ LET i == NextRequest(cfg.twilio, smsIdx[l] + 1) IN
                 IF i # 0
                   THEN /\ sent' = Append(sent, Request(l, i))
                        /\ smsIdx' = [smsIdx EXCEPT ![l] = i]
                        /\ UNCHANGED <<pc, pt>>
                   ELSE /\ pc' = [pc EXCEPT ![l] = "check"]
                        /\ smsIdx' = [smsIdx EXCEPT ![l] = 0]
                        /\ pt' = [pt EXCEPT ![l] = NoSample]
                        /\ UNCHANGED sent
            /\ UNCHANGED <<summaries, wg, exitPath>>
  /\ UNCHANGED <<cfg, now, ticks, crashed, mainPc, nextUrl, sigVars, lastAlert, oops, done,
                 numTries, failcount, deferred, timeSinceLast, attempts, streak, effects,
                 hist, noValid, timer>>

\* the panic of line 471 is not recovered: once the deferred calls of the
\* goroutine have run, the runtime ends the process with the panic, also when
\* wg.Done has released main and main has returned in between
FatalPanic ==
  /\ ~crashed
  /\ \E l \in Urls : exitPath[l] = "panic"
  /\ crashed' = TRUE
  /\ UNCHANGED <<cfg, now, ticks, mainVars, sigVars, alertVars, loopVars>>

\* ---------------------------------------------------------------- specification

Next ==
  \/ Spawn
  \/ MainWait
  \/ Tick
  \/ Signal
  \/ HandleSignal
  \/ ClearDoneChan
  \/ \E l \in Urls : FetchFail(l)
  \/ \E l \in Urls : \E shape \in ShapesOf(l) : FetchOk(l, shape)
  \/ \E l \in Urls : Publish(l)
  \/ \E l \in Urls : CheckTries(l)
  \/ \E l \in Urls : WaitDone(l)
  \/ \E l \in Urls : WaitTimer(l)
  \/ \E l \in Urls : SendAlertRead(l)
  \/ \E l \in Urls : SendAlertCheck(l)
  \/ \E l \in Urls : SendAlertNotify(l)
  \/ \E l \in Urls : \E o \in Outcomes : SendTwilioDone(l, o)
  \/ FatalPanic

Spec == Init /\ [][Next]_vars

\* the alert manager over a running clock: every sample is over the threshold and
\* no termination signal arrives
NextAlert ==
  \/ Spawn
  \/ MainWait
  \/ Tick
  \/ \E l \in Urls : FetchFail(l)
  \/ \E l \in Urls : \E shape \in SlowShapes : FetchOk(l, shape)
  \/ \E l \in Urls : Publish(l)
  \/ \E l \in Urls : CheckTries(l)
  \/ \E l \in Urls : WaitTimer(l)
  \/ \E l \in Urls : SendAlertRead(l)
  \/ \E l \in Urls : SendAlertCheck(l)
  \/ \E l \in Urls : SendAlertNotify(l)
  \/ \E l \in Urls : \E o \in Outcomes : SendTwilioDone(l, o)
  \/ FatalPanic

SpecAlert == InitAlert /\ [][NextAlert]_vars

\* ---------------------------------------------------------------- properties

Abs(x) == IF x < 0 THEN -x ELSE x

RECURSIVE SumFn(_, _)
SumFn(g, S) ==
  IF S = {} THEN 0
  ELSE LET x == CHOOSE y \in S : TRUE IN g[x] + SumFn(g, S \ {x})

\* what the samples a loop received add up to, and how many they are
Received(l) == SumFn(hist[l], SampleShapes)
TotalOf(l, F(_)) == SumFn([sh \in SampleShapes |-> hist[l][sh] * F(sh)], SampleShapes)

\* v thousandths of a millisecond is total microseconds over n, to the nearest
NearAverage(v, total, n) ==
  2 * Abs(v * n * Millisecond - 1000 * total) <= n * Millisecond

\* C1: no recipient is sent two alerts for samples that started less than one
\* alert interval apart, whichever loops they come from
C1_OneAlertPerInterval ==
  \A i, j \in DOMAIN sent :
    (i < j /\ sent[i].to = sent[j].to) =>
      Abs(sent[j].start - sent[i].start) >= cfg.alertInterval

\* no other loop is inside sendAlert and what loop l read of lastAlert still holds
NoOverlap(l) ==
  /\ \A m \in Urls \ {l} :
       pc[m] \notin {"alert_read", "alert_check", "alert_send", "twilio"}
  /\ timeSinceLast[l] = pt[l].Start - lastAlert

\* C2: a breaching sample handled with no other sendAlert overlapping passes the
\* debounce check exactly when no alert was dispatched before, or its start is at
\* least one alert interval after the start of the last dispatched one
C2_DebounceRule ==
  [][\A l \in Urls :
       (SendAlertCheck(l) /\ NoOverlap(l) /\ ~NowhereToSend(cfg.twilio)) =>
         (pc'[l] = "alert_send" <=>
            (sent = <<>> \/
             pt[l].Start - sent[Len(sent)].start >= cfg.alertInterval))]_vars

\* C3: a loop none of whose attempts succeeded has made at most maxFails attempts,
\* has left by the failure ceiling exactly when it has made maxFails of them, has
\* then printed "No valid samples" once, and has neither registered nor printed a
\* summary
C3_AllAttemptsFail ==
  \A l \in Urls :
    count[l] = 0 =>
      /\ attempts[l] = failcount[l]
      /\ failcount[l] <= cfg.maxFails
      /\ (failcount[l] = cfg.maxFails <=> exitPath[l] = "failures")
      /\ (pc[l] = "done" => exitPath[l] \in {"failures", "stop"})
      /\ noValid[l] = (IF exitPath[l] = "failures" THEN 1 ELSE 0)
      /\ deferred[l] = 0
      /\ summaries[l] = <<>>

C3_Witness ==
  \E l \in Urls :
    /\ cfg.maxFails = 2
    /\ count[l] = 0
    /\ attempts[l] = 2
    /\ exitPath[l] = "failures"
    /\ noValid[l] = 1

\* C4: a printed summary reports the number of samples received and, for each
\* phase, for the response time and for the size, their total over that number
C4_SummaryAverages ==
  \A l \in Urls :
    \A i \in DOMAIN summaries[l] :
      LET b == summaries[l][i]
          n == Received(l)
      IN  /\ n >= 1
          /\ b.count = n
          /\ NearAverage(b.DnsLk, TotalOf(l, LAMBDA sh : sh.DnsLk), n)
          /\ NearAverage(b.TcpHs, TotalOf(l, LAMBDA sh : sh.TcpHs), n)
          /\ NearAverage(b.TlsHs, TotalOf(l, LAMBDA sh : sh.TlsHs), n)
          /\ NearAverage(b.Reply, TotalOf(l, LAMBDA sh : sh.Reply), n)
          /\ NearAverage(b.Close, TotalOf(l, LAMBDA sh : sh.Close), n)
          /\ NearAverage(b.RespTime, TotalOf(l, RespTime), n)
          /\ b.Size * n <= TotalOf(l, LAMBDA sh : sh.Size)
          /\ TotalOf(l, LAMBDA sh : sh.Size) < (b.Size + 1) * n
          /\ (\A sh \in SampleShapes : hist[l][sh] = 1) =>
               (b.count = 3 /\ b.RespTime = 20 * 1000)

C4_Witness ==
  \E l \in Urls :
    /\ summaries[l] # <<>>
    /\ \A sh \in SampleShapes : hist[l][sh] = 1
    /\ failcount[l] >= 1
    /\ summaries[l][1].RespTime = 20 * 1000

\* C5: a loop at its wait step whose done channel is closed leaves it only by
\* returning: it does not go on to another probe
C5_StopExitsAtWait ==
  [][\A l \in Urls :
       (pc[l] = "wait" /\ DoneReady(done[l], chanClosed)) =>
         pc'[l] \in {"wait", "done"}]_vars

\* C6: however many termination requests arrive, one acknowledgement is printed
C6_OneAcknowledgement == acks <= 1

\* C7: once the stop signal is closed, every loop at its wait step can take the
\* done case, whenever the request arrived
C7_SharedStopSignal ==
  \A l \in Urls :
    (chanClosed /\ pc[l] = "wait") => DoneReady(done[l], chanClosed)

\* the URLs of the run
Targets == {cfg.urls[i] : i \in 1..Len(cfg.urls)}

\* C8: main returns only when every loop has returned; the WaitGroup counts the
\* loops started and not yet returned, so each loop calls Done once on whatever
\* path it leaves; and when main waits a loop has been started for every URL
C8_JoinAllLoops ==
  /\ mainPc = "returned" => \A l \in Targets : pc[l] = "done"
  /\ wg = Cardinality({l \in Urls : pc[l] \notin {"idle", "done"}})
  /\ \A l \in Urls \ Targets : pc[l] = "idle"
  /\ mainPc \in {"wait", "returned"} =>
       /\ nextUrl = Len(cfg.urls) + 1
       /\ \A l \in Targets : pc[l] # "idle"
  /\ \A l \in Urls : pc[l] = "done" <=> exitPath[l] # "none"

C8_Witness ==
  /\ mainPc = "returned"
  /\ exitPath[urls[1]] = "stop"
  /\ exitPath[urls[2]] = "failures"

\* C9: a loop that has returned, by any path, has printed its summary once if it
\* had a success and not at all otherwise; a loop still running has printed none
C9_SummaryOnce ==
  \A l \in Urls :
    /\ pc[l] = "done" => Len(summaries[l]) = (IF count[l] > 0 THEN 1 ELSE 0)
    /\ pc[l] # "done" => summaries[l] = <<>>

C9_Witness ==
  /\ exitPath[urls[1]] = "stop"
  /\ count[urls[1]] = 2
  /\ Len(summaries[urls[1]]) = 1
  /\ exitPath[urls[2]] = "failures"
  /\ count[urls[2]] = 0
  /\ summaries[urls[2]] = <<>>

\* C10: a request to the notification sink that fails does not end the process or
\* the loop that made it
C10_SinkFailureNotFatal ==
  /\ ~crashed
  /\ \A l \in Urls : exitPath[l] # "panic"

\* C11: with an attempt ceiling N > 0 and a failure ceiling F > 0, successes and
\* failures are counted apart, a loop leaves by the attempt ceiling only with N
\* successes and probes no more once it has N, leaves by the failure ceiling
\* exactly at its F-th failure, and so never makes more than N + F - 1 attempts
C11_CeilingsBoundAttempts ==
  (cfg.numTests > 0 /\ cfg.maxFails > 0) =>
    \A l \in Urls :
      /\ attempts[l] = count[l] + failcount[l]
      /\ count[l] <= cfg.numTests
      /\ failcount[l] <= cfg.maxFails
      /\ exitPath[l] = "attempts" => count[l] = cfg.numTests
      /\ count[l] = cfg.numTests => pc[l] \notin {"fetch", "wait"}
      /\ exitPath[l] = "failures" <=> failcount[l] = cfg.maxFails
      /\ attempts[l] <= cfg.numTests + cfg.maxFails - 1
      /\ (closes = 0 /\ pc[l] = "done" /\ ~crashed) =>
           exitPath[l] \in {"attempts", "failures"}

\* the bound is met: N successes and F - 1 failures, no stop signal
C11_Witness ==
  /\ cfg.numTests = 3
  /\ cfg.maxFails = 2
  /\ closes = 0
  /\ exitPath[urls[1]] = "attempts"
  /\ count[urls[1]] = cfg.numTests
  /\ failcount[urls[1]] = cfg.maxFails - 1
  /\ attempts[urls[1]] = cfg.numTests + cfg.maxFails - 1

\* what C12 says of every state
FailuresCounted ==
  \A l \in Urls :
    /\ failcount[l] = attempts[l] - count[l]
    /\ streak[l] <= failcount[l]
    /\ failcount[l] <= cfg.maxFails
    /\ exitPath[l] = "failures" <=> failcount[l] = cfg.maxFails
    /\ (exitPath[l] = "failures" /\ count[l] > 0) =>
         /\ Len(summaries[l]) = 1
         /\ summaries[l][1].count = count[l]
         /\ noValid[l] = 0

\* C12: the failure ceiling counts all failures of a loop, consecutive or not: no
\* step lowers the failure count, a success leaves it as it is, and the loop
\* leaves by the failure ceiling exactly at its maxFails-th failure overall; if it
\* had successes it then prints the summary of those successes and does not
\* print "No valid samples"
C12_TotalFailuresCount ==
  /\ []FailuresCounted
  /\ [][\A l \in Urls :
          /\ failcount'[l] >= failcount[l]
          /\ count'[l] # count[l] => failcount'[l] = failcount[l]]_vars

\* failure, success, failure with a ceiling of 2: the loop leaves at the second
\* failure although only one failure came since the last success
C12_Witness ==
  /\ cfg.maxFails = 2
  /\ exitPath[urls[1]] = "failures"
  /\ attempts[urls[1]] = 3
  /\ count[urls[1]] = 1
  /\ streak[urls[1]] = 1
  /\ Len(summaries[urls[1]]) = 1
  /\ noValid[urls[1]] = 0

\* C13: with -n 0 the attempt ceiling of a loop is the cap 2^31 - 1, so the loop
\* never leaves because of its success count; a loop that has returned did so at
\* the stop signal, which it held closed, or at the failure ceiling
C13_ZeroMeansUnbounded ==
  cfg.numTests = 0 =>
    \A l \in Urls :
      /\ pc[l] # "idle" => numTries[l] = MaxInt32
      /\ exitPath[l] # "attempts"
      /\ pc[l] = "done" => exitPath[l] \in {"stop", "failures"}
      /\ exitPath[l] = "stop" => chanClosed /\ done[l] = "chan"
      /\ exitPath[l] = "failures" => failcount[l] = cfg.maxFails

\* C14: as long as no alert has passed the debounce check, a breaching sample
\* handed to sendAlert passes it, whatever its start time
C14_FirstAlertDispatched ==
  [][\A l \in Urls :
       (/\ pc[l] = "alert_check"
        /\ pc'[l] # "alert_check"
        /\ sent = <<>>
        /\ oops = 0
        /\ \A m \in Urls : pc[m] # "alert_send") =>
         pc'[l] = "alert_send"]_vars

\* the configurations C15 is about: no credentials or no recipients
Unconfigured == cfg.twilio.key = "" \/ cfg.twilio.sms = <<>>

\* C15: the step at which a breaching sample passes the debounce check stores the
\* sample's start time in lastAlert, and nothing has been sent or reported for the
\* sample by then; with no recipients or no credentials nothing is ever sent, the
\* configuration error is reported once for each sample that passed and by nothing
\* else, and the reporting step leaves the loop on its way to the next attempt
C15_UnconfiguredReported ==
  /\ [](Unconfigured => (sent = <<>> /\ ~crashed))
  /\ [][/\ \A l \in Urls :
             /\ (pc[l] = "alert_check" /\ pc'[l] = "alert_send") =>
                  /\ lastAlert' = pt[l].Start
                  /\ sent' = sent
                  /\ oops' = oops
             /\ (Unconfigured /\ pc[l] = "alert_send" /\ pc'[l] # "alert_send") =>
                  /\ oops' = oops + 1
                  /\ lastAlert' = lastAlert
                  /\ pc'[l] = "check"
                  /\ exitPath'[l] = "none"
        /\ oops' # oops =>
             \E l \in Urls : Unconfigured /\ pc[l] = "alert_send" /\ pc'[l] = "check"]_vars

\* credentials without recipients: two samples passed the debounce test, the error was
\* reported for each and a loop that had a sample before is probing again
C15_Witness ==
  /\ cfg.twilio.key # ""
  /\ cfg.twilio.sms = <<>>
  /\ oops = 2
  /\ lastAlert = now
  /\ sent = <<>>
  /\ \E l \in Urls : pc[l] = "fetch" /\ count[l] >= 1

\* C16: a step that raises a loop's failure count without ending the loop raises
\* it by one and changes nothing else the loop or the process keeps: success
\* count, running summary, registered summary printer, lastAlert, the alerts sent
\* and the errors reported are as before, and the attempt has written no sample,
\* published to no sink and not called sendAlert; a loop is inside sendAlert only
\* with a received sample whose response time is strictly over the threshold
C16_FailureOnlyCounts ==
  /\ [](\A l \in Urls :
          /\ pc[l] \in {"alert_read", "alert_check", "alert_send", "twilio"} =>
               /\ pt[l] # NoSample
               /\ RespTime(pt[l]) > alertThresh
               /\ count[l] > 0
               /\ effects[l] # <<>>
               /\ effects[l][1] = "emit"
          /\ pc[l] \in {"cloudwatch", "webhook"} =>
               /\ pt[l] # NoSample
               /\ count[l] > 0
               /\ effects[l] # <<>>
          /\ \A i \in 1..Len(effects[l]) :
               effects[l][i] = "alert" =>
                 pc[l] \in {"alert_check", "alert_send", "twilio", "check", "done"})
  /\ [][\A l \in Urls :
          (failcount'[l] # failcount[l] /\ pc'[l] # "done") =>
            /\ failcount'[l] = failcount[l] + 1
            /\ attempts'[l] = attempts[l] + 1
            /\ count' = count
            /\ ptSummary' = ptSummary
            /\ deferred' = deferred
            /\ hist' = hist
            /\ summaries' = summaries
            /\ alertVars' = alertVars
            /\ effects'[l] = <<>>
            /\ pc'[l] = "check"
            /\ \A m \in Urls \ {l} : pc'[m] = pc[m] /\ effects'[m] = effects[m]]_vars

\* a failed attempt below a ceiling of 2, after a sample exactly at the threshold
\* that raised no alert and one over it that did
C16_Witness ==
  /\ cfg.maxFails = 2
  /\ pc[urls[1]] = "check"
  /\ failcount[urls[1]] = 1
  /\ streak[urls[1]] = 1
  /\ effects[urls[1]] = <<>>
  /\ count[urls[1]] = 2
  /\ \E sh \in SampleShapes :
       RespTime(sh) = alertThresh /\ hist[urls[1]][sh] = 1
  /\ lastAlert = ptSummary[urls[1]].Start
  /\ Len(sent) = Len(cfg.twilio.sms)
  /\ oops = 0

\* the side effects of one attempt in the order of the loop body
EffectOrder == <<"emit", "cloudwatch", "webhook", "alert">>

PlaceOf(e) == CHOOSE i \in 1..Len(EffectOrder) : EffectOrder[i] = e

\* the publications loop l has made for its current sample
Made(l, e) == \E i \in 1..Len(effects[l]) : effects[l][i] = e

\* the effects so far are distinct, in the order of the loop body, begin with the
\* written sample and are among the configured ones; past the CloudWatch step the
\* CloudWatch publication is made if configured, past the webhook step the webhook
\* post too
InOrder(l) ==
  LET es == effects[l] IN
    /\ \A i \in 1..Len(es) : es[i] \in {EffectOrder[k] : k \in 1..Len(EffectOrder)}
    /\ \A i, j \in 1..Len(es) : i < j => PlaceOf(es[i]) < PlaceOf(es[j])
    /\ Made(l, "cloudwatch") => cfg.cwFlag
    /\ Made(l, "webhook") => cfg.whClient
    /\ es # <<>> =>
         /\ es[1] = "emit"
         /\ pc[l] # "cloudwatch" => (cfg.cwFlag <=> Made(l, "cloudwatch"))
         /\ pc[l] \notin {"cloudwatch", "webhook"} =>
              (cfg.whClient <=> Made(l, "webhook"))

\* C17: within a loop an attempt starts only at the fetch step, which is entered
\* from the spawn or from the wait step and from nowhere else; the wait step is
\* entered only from the attempt-ceiling test, after a failure as after a success,
\* and that test only when the attempt's side effects are over: none for a failed
\* attempt, else the written sample, the CloudWatch publication, the webhook post
\* and the call of sendAlert, in this order, each begun only when the one before
\* it has returned
C17_SequentialAttempts ==
  /\ [](\A l \in Urls : InOrder(l))
  /\ [][\A l \in Urls :
          /\ attempts'[l] # attempts[l] =>
               /\ pc[l] = "fetch"
               /\ attempts'[l] = attempts[l] + 1
               /\ pc'[l] \in {"cloudwatch", "webhook", "alert_read", "check", "done"}
          /\ (pc[l] = "fetch" /\ pc'[l] # "fetch") => attempts'[l] = attempts[l] + 1
          /\ (pc'[l] = "fetch" /\ pc[l] # "fetch") => pc[l] \in {"idle", "wait"}
          /\ (pc'[l] = "wait" /\ pc[l] # "wait") => pc[l] = "check"
          /\ (pc'[l] = "cloudwatch" /\ pc[l] # "cloudwatch") =>
               pc[l] = "fetch" /\ effects'[l] = <<"emit">>
          /\ (pc'[l] = "webhook" /\ pc[l] # "webhook") =>
               /\ pc[l] \in {"fetch", "cloudwatch"}
               /\ effects'[l][Len(effects'[l])] = (IF cfg.cwFlag THEN "cloudwatch"
                                                   ELSE "emit")
          /\ (pc[l] \in {"cloudwatch", "webhook"} /\ pc'[l] # pc[l]) =>
               /\ effects'[l] = Append(effects[l], pc[l])
               /\ count'[l] = count[l]
               /\ pc'[l] \in {"webhook", "alert_read", "check"}
          /\ (pc'[l] = "check" /\ pc[l] # "check") =>
               \/ pc[l] = "fetch" /\ count'[l] = count[l] /\ effects'[l] = <<>>
               \/ /\ pc[l] = "fetch"
                  /\ count'[l] = count[l] + 1
                  /\ effects'[l] = <<"emit">>
                  /\ \A sh \in SampleShapes :
                       hist'[l][sh] # hist[l][sh] => RespTime(sh) <= alertThresh
               \/ /\ pc[l] \in {"cloudwatch", "webhook"}
                  /\ RespTime(pt[l]) <= alertThresh
                  /\ effects'[l][Len(effects'[l])] = pc[l]
               \/ /\ pc[l] \in {"alert_check", "alert_send", "twilio"}
                  /\ effects'[l][Len(effects'[l])] = "alert"
          /\ (pc'[l] = "alert_read" /\ pc[l] # "alert_read") =>
               /\ pc[l] \in {"fetch", "cloudwatch", "webhook"}
               /\ RespTime(pt'[l]) > alertThresh
          /\ (pc[l] = "alert_read" /\ pc'[l] # "alert_read") =>
               /\ pc'[l] = "alert_check"
               /\ effects'[l] = Append(effects[l], "alert")]_vars

\* the third attempt of a loop, after a failed one and a successful one and a wait
\* step after each, has written, published twice and called sendAlert
C17_Witness ==
  /\ cfg.cwFlag
  /\ cfg.whClient
  /\ attempts[urls[1]] = 3
  /\ failcount[urls[1]] = 1
  /\ streak[urls[1]] = 0
  /\ pc[urls[1]] = "check"
  /\ effects[urls[1]] = EffectOrder

\* C18: the done channel starts open, is closed at most once however many signals
\* are handled, and once closed stays closed; from the close on, every loop that
\* comes to read the signal at its wait step finds the done case ready
C18_StopSignalClosesOnce ==
  /\ [](/\ closes <= 1
        /\ chanClosed <=> closes = 1
        /\ acks = 0 => ~chanClosed
        /\ \A l \in Urls :
             (chanClosed /\ pc[l] = "wait") => DoneReady(done[l], chanClosed))
  /\ [][/\ chanClosed => chanClosed'
        /\ closes' >= closes
        /\ closes' # closes => (~chanClosed /\ closes' = closes + 1)
        /\ \A l \in Urls : (done[l] = "chan") => done'[l] = "chan"]_vars

\* C19: no step lowers lastAlert: every write stores a value at least as large as
\* the one it replaces
C19_LastAlertMonotonic == [][lastAlert' >= lastAlert]_vars

====
